---- MODULE Spec2Model ----
(***************************************************************************)
(* Loan approval durable workflow (src/src/loan_demo.py), its API layer    *)
(* (src/src/api.py) and the external fraud-check service                   *)
(* (src/src/fraud_check.py), for one application.                          *)
(*                                                                         *)
(* The DynamoDB item of the application is the variable rec.  The durable   *)
(* execution host is a collaborator: it invokes lambda_handler, checkpoints *)
(* context.step / context.parallel / context.wait_for_callback, suspends    *)
(* the execution while a callback is pending and re-invokes the handler     *)
(* from its first line after a suspension, after a crash of the invocation, *)
(* and after a failure.  The steps of the workflow are deterministic        *)
(* functions of their arguments, so a checkpointed step result and a        *)
(* recomputed one are the same value; only the callbacks carry host state.  *)
(***************************************************************************)
EXTENDS Integers, Sequences, FiniteSets, TLC

\* ------------------------------------------------------------- bounds ----
\* Crashes of a running invocation plus host retries of a failed execution.
MaxFaults == 1

\* log_progress calls of one of two concurrent invocations.
MaxWrites == 2

\* ---------------------------------------------------------- constants ----
ManagerThreshold == 100000
CharlieCeiling == 25000
AnnualIncome == 85000

None == [null |-> TRUE]
Absent == "absent"

ManagerCallbackId == "cb-manager-approval"
FraudCallbackId == "cb-fraud-check"
DefaultReason == "Manager denied the application"

Steps ==
    {"submitted", "validating", "credit_check", "risk_assessment",
     "manager_approval", "fraud_check", "generating_offer", "disbursing",
     "complete", "error"}

Approvers == {"m1", "m2"}

\* Two invocations of the workflow for one application that run at once.
Writers == {"w1", "w2"}

\* Request bodies of POST /apply: name, sin, loan_amount (0 stands for a
\* missing or zero amount, which `all([...])` treats alike).
ApplyBodies ==
    {[name |-> "Alice",   sin |-> "1111", loan_amount |-> 50000],
     [name |-> "Alice",   sin |-> "1111", loan_amount |-> 100000],
     [name |-> "Alice",   sin |-> "1111", loan_amount |-> 150000],
     [name |-> "Bob",     sin |-> "2222", loan_amount |-> 50000],
     [name |-> "Bob",     sin |-> "2222", loan_amount |-> 150000],
     [name |-> "Charlie", sin |-> "3333", loan_amount |-> 25000],
     [name |-> "Charlie", sin |-> "3333", loan_amount |-> 30000],
     [name |-> "Dana",    sin |-> "9999", loan_amount |-> 50000],
     [name |-> "Alice",   sin |-> "1111", loan_amount |-> -5],
     [name |-> "Alice",   sin |-> "1111", loan_amount |-> 0],
     [name |-> "",        sin |-> "1111", loan_amount |-> 50000],
     [name |-> "Alice",   sin |-> "",     loan_amount |-> 50000]}

\* Request bodies of POST /approve.
ApproveBodies ==
    {[approved |-> TRUE],
     [approved |-> FALSE],
     [approved |-> FALSE, reason |-> "Too risky"]}

\* dict.get(key, default)
Get(d, key, default) == IF key \in DOMAIN d THEN d[key] ELSE default

\* UpdateExpression "SET key = value" and "REMOVE key" on an item.
SetAttr(item, key, value) ==
    [k \in DOMAIN item \cup {key} |-> IF k = key THEN value ELSE item[k]]

RemoveAttr(item, key) == [k \in DOMAIN item \ {key} |-> item[k]]

VARIABLES
    rec,             \* the DynamoDB item of the application, or None
    event,           \* the workflow event payload built by apply, or None
    exec,            \* state of the durable execution at the host
    pc,              \* position of the running invocation in lambda_handler
    prior_counts,    \* lambda_handler: Counter of stored log entries per step
    call_counts,     \* lambda_handler: Counter of log calls of this invocation
    risk,            \* lambda_handler: risk["decision"], or Absent
    approval_result, \* lambda_handler: approval_result, or None
    credit_reports,  \* lambda_handler: credit_reports, <<>> before the fan-out
    completion,      \* branches of the fan-out finished in this invocation, in order
    branches,        \* host: the checkpointed branch results of context.parallel
    mgrCb,           \* host: the "manager-approval" callback
    fraudCb,         \* host: the "fraud-check" callback
    fraudQueue,      \* asynchronous invocations of the fraud-check Lambda
    apc,             \* approve: position of each request
    alocal,          \* approve: callback_id and callback_result of a request
    response,        \* the API Lambda's last HTTP response
    faults,          \* crashes and retries so far
    managers,        \* the approve requests that may be in flight at once
    resumedWith,     \* body of the approve request whose callback was accepted
    submits,         \* history: how often each submitter has run
    senders,         \* history: the approve requests that sent a callback
    wstate,          \* concurrent invocations: position, item read, calls made
    written          \* history: the entries of the completed log_progress calls

vars ==
    <<rec, event, exec, pc, prior_counts, call_counts, risk, approval_result,
      credit_reports, completion, branches, mgrCb, fraudCb, fraudQueue, apc, alocal, response, faults, managers,
      resumedWith, submits, senders, wstate, written>>

handlerVars ==
    <<pc, prior_counts, call_counts, risk, approval_result, credit_reports, completion>>
apiVars == <<apc, alocal, response, resumedWith, senders>>
hostVars == <<mgrCb, fraudCb, fraudQueue, managers, submits, branches>>

writerVars == <<wstate, written>>

ZeroCounts == [s \in Steps |-> 0]
NoCallback == [state |-> "none", result |-> None]

\* ------------------------------------------------------ loan_demo.py ----

\* Counter(entry["step"] for entry in existing.get("logs", []))
StepCounter(logs) ==
    [s \in Steps |-> Cardinality({i \in 1..Len(logs) : logs[i].step = s})]

\* Faulty variant: a replay echo is dropped instead of being stored.
log_progress_SkipReplay(item, step, message, status, level, result) ==
    IF level = "replay"
    THEN item
    ELSE [item EXCEPT
            !.logs = Append(@, [step |-> step, message |-> message, level |-> level]),
            !.current_step = step,
            !.status = status,
            !.result = IF result # None THEN result ELSE @]

\* Faulty variant: the entry is appended but the status is not updated.
log_progress_KeepStatus(item, step, message, status, level, result) ==
    [item EXCEPT
        !.logs = Append(@, [step |-> step, message |-> message, level |-> level]),
        !.current_step = step,
        !.result = IF result # None THEN result ELSE @]

\* log_progress: append the entry and set current_step, status (and result
\* when one is given) in one update_item.
log_progress(item, step, message, status, level, result) ==
    [item EXCEPT
        !.logs = Append(@, [step |-> step, message |-> message, level |-> level]),
        !.current_step = step,
        !.status = status,
        !.result = IF result # None THEN result ELSE @]

\* Faulty variant: no log call is recognised as a replay.
IsReplay_Never(calls, prior, step) == FALSE

\* The test of lambda_handler.log, after call_counts[step] += 1.
IsReplay(calls, prior, step) == calls[step] <= prior[step]

\* lambda_handler.log: the count-per-step discriminator, then log_progress.
log(step, message, status, level, result) ==
    LET calls == [call_counts EXCEPT ![step] = @ + 1]
        replay == IsReplay(calls, prior_counts, step)
    IN  /\ call_counts' = calls
        /\ rec' = log_progress(rec, step,
                               IF replay THEN <<"[REPLAY] ">> \o message ELSE message,
                               status,
                               IF replay THEN "replay" ELSE level,
                               result)

\* Faulty variant: the ceiling of scenario 3333 is not applied.
get_scenario_decision_NoCeiling(ssn_last4, loan_amount) ==
    IF ssn_last4 = "2222" THEN "denied" ELSE "approved"

get_scenario_decision(ssn_last4, loan_amount) ==
    IF ssn_last4 = "1111" THEN "approved"
    ELSE IF ssn_last4 = "2222" THEN "denied"
    ELSE IF ssn_last4 = "3333"
         THEN (IF loan_amount <= CharlieCeiling THEN "approved" ELSE "denied")
    ELSE "approved"

\* bureaus = ["equifax", "transunion", "experian"]
Bureaus == <<"equifax", "transunion", "experian">>

\* pull_credit_report: the report is a function of the bureau and of the seed
\* f"{bureau}-{ssn_last4}".
pull_credit_report(bureau, ssn_last4) ==
    [bureau |-> bureau, seed |-> <<bureau, "-", ssn_last4>>]

\* Faulty variant: the closures share the loop variable, so every branch
\* pulls the report of the last bureau.
Branch_LateBinding(i) == Bureaus[Len(Bureaus)]

\* lambda ctx, b=b: the bureau of the i-th branch handed to context.parallel.
Branch(i) == Bureaus[i]

\* Faulty variant: the results in the order in which the branches finished.
get_results_AsCompleted(batch) ==
    [k \in 1..Len(completion) |->
        (CHOOSE r \in batch : r.index = completion[k]).result]

\* credit_results.get_results(): the results of the branches by branch index.
get_results(batch) ==
    [i \in 1..Cardinality(batch) |-> (CHOOSE r \in batch : r.index = i).result]

\* validate_application: TRUE when it returns, FALSE when it raises ValueError.
validate_application(application) ==
    /\ {"application_id", "applicant_name", "ssn_last4", "annual_income",
        "loan_amount", "loan_purpose"} \subseteq DOMAIN application
    /\ application.loan_amount > 0
    /\ application.annual_income > 0

\* Faulty variant: a threshold with a digit missing.
NeedsManagerApproval_LowThreshold(loan_amount) == loan_amount >= 10000

\* Faulty variant: the threshold itself does not need a manager.
NeedsManagerApproval_Strict(loan_amount) == loan_amount > ManagerThreshold

\* if validated["loan_amount"] >= 100000
NeedsManagerApproval(loan_amount) == loan_amount >= ManagerThreshold

\* Faulty variant: the submitter does not store the callback id.
submit_manager_approval_NoStore(item, callback_id) == item

\* submit_manager_approval: SET callback_id = :cid
submit_manager_approval(item, callback_id) ==
    SetAttr(item, "callback_id", callback_id)

\* Faulty variant: the fraud-check submitter stores its callback id as well.
submit_fraud_check_Store(item, callback_id) ==
    SetAttr(item, "callback_id", callback_id)

\* submit_fraud_check: the callback id goes into the payload of the
\* asynchronous invocation; the item is not written.
submit_fraud_check(item, callback_id) == item

\* What context.wait_for_callback does for a callback in a given state.
WaitOutcome(cb) ==
    CASE cb.state = "none" -> "submit"
      [] cb.state = "pending" -> "suspend"
      [] cb.state = "succeeded" -> "return"
      [] OTHER -> "raise"

\* Faulty variant: the submitter runs again when the wait is replayed.
SubmitterRuns_OnReplay(outcome) == outcome \in {"submit", "suspend", "return"}

\* wait_for_callback runs the submitter it is given when it creates the
\* callback, and not when it finds the callback in the checkpoint.
SubmitterRuns(outcome) == outcome = "submit"

\* Faulty variant: the handler does not wait for the manager's answer and
\* carries on as if the loan had been approved.
AfterManagerWait_FallThrough(outcome, result) ==
    CASE outcome = "raise" -> "except"
      [] outcome = "return" /\ ~Get(result, "approved", FALSE) -> "manager_denied"
      [] OTHER -> "manager_approved"

\* Where lambda_handler goes after context.wait_for_callback for the manager:
\* the invocation is suspended ("idle"), the exception handler, or the branch
\* on approval_result.get("approved").
AfterManagerWait(outcome, result) ==
    CASE outcome \in {"submit", "suspend"} -> "idle"
      [] outcome = "raise" -> "except"
      [] OTHER -> IF ~Get(result, "approved", FALSE)
                  THEN "manager_denied" ELSE "manager_approved"

\* Faulty variant: the handler does not wait for the fraud-check callback.
AfterFraudWait_FallThrough(outcome) ==
    CASE outcome = "raise" -> "except"
      [] OTHER -> "fraud_passed"

\* Likewise for the fraud check.
AfterFraudWait(outcome) ==
    CASE outcome \in {"submit", "suspend"} -> "idle"
      [] outcome = "raise" -> "except"
      [] OTHER -> "fraud_passed"

DeniedByRisk ==
    [status |-> "denied", reason |-> "Application denied - risk tier"]

DeniedByManager(approval) ==
    [status |-> "denied",
     reason |-> Get(approval, "reason", DefaultReason)]

ApprovedResult ==
    [status |-> "approved", offer_id |-> "OFFER-1", disbursement_ref |-> "DSB-1"]

Running(at) == exec = "running" /\ pc = at

\* The host starts an invocation: the first one queued by apply
\* (InvocationType="Event"), a re-invocation after a crash, after the awaited
\* callback ended, or a retry of an execution whose handler raised.  The
\* handler then reads the item and builds the two counters.
HostInvoke ==
    /\ \/ exec \in {"queued", "crashed"} /\ faults' = faults
       \/ /\ exec = "suspended"
          /\ mgrCb.state # "pending"
          /\ fraudCb.state # "pending"
          /\ faults' = faults
       \/ exec = "failed" /\ faults < MaxFaults /\ faults' = faults + 1
    /\ exec' = "running"
    /\ pc' = "validating"
    /\ prior_counts' = StepCounter(Get(rec, "logs", <<>>))
    /\ call_counts' = ZeroCounts
    /\ risk' = Absent
    /\ approval_result' = None
    /\ credit_reports' = <<>>
    /\ completion' = <<>>
    /\ UNCHANGED <<rec, event, hostVars, apiVars, writerVars>>

\* The invocation dies (sandbox crash, Lambda timeout) between two statements.
Crash ==
    /\ exec = "running"
    /\ faults < MaxFaults
    /\ faults' = faults + 1
    /\ exec' = "crashed"
    /\ pc' = "idle"
    /\ prior_counts' = ZeroCounts
    /\ call_counts' = ZeroCounts
    /\ risk' = Absent
    /\ approval_result' = None
    /\ credit_reports' = <<>>
    /\ completion' = <<>>
    /\ UNCHANGED <<rec, event, hostVars, apiVars, writerVars>>

Validating ==
    /\ Running("validating")
    /\ log("validating", <<"Validating loan application...">>, "processing", "info", None)
    /\ pc' = IF validate_application(event) THEN "validated" ELSE "except"
    /\ UNCHANGED <<event, exec, prior_counts, risk, approval_result, credit_reports,
                   completion, hostVars, apiVars, faults, writerVars>>

Validated ==
    /\ Running("validated")
    /\ log("validating", <<"Application validated successfully">>, "processing", "info", None)
    /\ pc' = "credit_check"
    /\ UNCHANGED <<event, exec, prior_counts, risk, approval_result, credit_reports,
                   completion, hostVars, apiVars, faults, writerVars>>

CreditCheck ==
    /\ Running("credit_check")
    /\ log("credit_check", <<"Pulling credit reports from 3 bureaus...">>, "processing", "info", None)
    /\ pc' = "pull_credit_reports"
    /\ UNCHANGED <<event, exec, prior_counts, risk, approval_result, credit_reports,
                   completion, hostVars, apiVars, faults, writerVars>>

\* One branch of context.parallel: ctx.step(pull_credit_report(b, ssn_last4)),
\* checkpointed by the host when it finishes.  The branches run concurrently
\* and finish in any order; a branch found in the checkpoint does not run.
PullCreditReport(i) ==
    /\ Running("pull_credit_reports")
    /\ ~\E r \in branches : r.index = i
    /\ branches' = branches \cup
           {[index |-> i, result |-> pull_credit_report(Branch(i), event.ssn_last4)]}
    /\ completion' = Append(completion, i)
    /\ UNCHANGED <<rec, event, exec, pc, prior_counts, call_counts, risk, approval_result,
                   credit_reports, mgrCb, fraudCb, fraudQueue, managers, submits,
                   apiVars, faults, writerVars>>

\* context.parallel returns when every branch has a result.
GetResults ==
    /\ Running("pull_credit_reports")
    /\ \A i \in DOMAIN Bureaus : \E r \in branches : r.index = i
    /\ credit_reports' = get_results(branches)
    /\ pc' = "credit_scores"
    /\ UNCHANGED <<rec, event, exec, prior_counts, call_counts, risk, approval_result,
                   completion, hostVars, apiVars, faults, writerVars>>

CreditScores ==
    /\ Running("credit_scores")
    /\ log("credit_check", <<"Credit scores received">>, "processing", "info", None)
    /\ pc' = "risk_assessment"
    /\ UNCHANGED <<event, exec, prior_counts, risk, approval_result, credit_reports,
                   completion, hostVars, apiVars, faults, writerVars>>

RiskAssessment ==
    /\ Running("risk_assessment")
    /\ log("risk_assessment", <<"Calculating risk score...">>, "processing", "info", None)
    /\ risk' = get_scenario_decision(event.ssn_last4, event.loan_amount)
    /\ pc' = "risk_assessed"
    /\ UNCHANGED <<event, exec, prior_counts, approval_result, credit_reports,
                   completion, hostVars, apiVars, faults, writerVars>>

RiskAssessed ==
    /\ Running("risk_assessed")
    /\ log("risk_assessment", <<"Risk tier, avg score, decision">>, "processing", "info", None)
    /\ pc' = IF risk = "denied" THEN "denied"
             ELSE IF NeedsManagerApproval(event.loan_amount) THEN "manager_required"
             ELSE "fraud_request"
    /\ UNCHANGED <<event, exec, prior_counts, risk, approval_result, credit_reports,
                   completion, hostVars, apiVars, faults, writerVars>>

Denied ==
    /\ Running("denied")
    /\ log("risk_assessment", <<"Application denied">>, "denied", "warn", DeniedByRisk)
    /\ pc' = "return"
    /\ UNCHANGED <<event, exec, prior_counts, risk, approval_result, credit_reports,
                   completion, hostVars, apiVars, faults, writerVars>>

ManagerRequired ==
    /\ Running("manager_required")
    /\ log("manager_approval", <<"Manager approval required for loans >= $100,000">>,
           "pending_approval", "info", None)
    /\ pc' = "wait_manager"
    /\ UNCHANGED <<event, exec, prior_counts, risk, approval_result, credit_reports,
                   completion, hostVars, apiVars, faults, writerVars>>

\* wait_for_callback(submit_manager_approval, name="manager-approval"): the
\* first time the host creates the callback and runs the submitter, then the
\* invocation is suspended; on a later invocation the checkpointed callback
\* is pending (suspend again), succeeded (its result) or timed out (raise).
WaitManager ==
    /\ Running("wait_manager")
    /\ LET outcome == WaitOutcome(mgrCb)
           next == AfterManagerWait(outcome, mgrCb.result)
       IN  /\ mgrCb' = IF outcome = "submit"
                       THEN [state |-> "pending", result |-> None] ELSE mgrCb
           /\ rec' = IF SubmitterRuns(outcome)
                     THEN submit_manager_approval(rec, ManagerCallbackId) ELSE rec
           /\ submits' = IF SubmitterRuns(outcome)
                         THEN [submits EXCEPT !.manager = @ + 1] ELSE submits
           /\ pc' = next
           /\ exec' = IF next = "idle" THEN "suspended" ELSE exec
           /\ prior_counts' = IF next = "idle" THEN ZeroCounts ELSE prior_counts
           /\ call_counts' = IF next = "idle" THEN ZeroCounts ELSE call_counts
           /\ risk' = IF next = "idle" THEN Absent ELSE risk
           /\ approval_result' = IF outcome = "return" THEN mgrCb.result ELSE None
           /\ credit_reports' = IF next = "idle" THEN <<>> ELSE credit_reports
           /\ completion' = IF next = "idle" THEN <<>> ELSE completion
    /\ UNCHANGED <<event, fraudCb, fraudQueue, managers, branches, apiVars, faults, writerVars>>

ManagerDenied ==
    /\ Running("manager_denied")
    /\ log("manager_approval", <<"Application denied by manager">>, "denied", "warn",
           DeniedByManager(approval_result))
    /\ pc' = "return"
    /\ UNCHANGED <<event, exec, prior_counts, risk, approval_result, credit_reports,
                   completion, hostVars, apiVars, faults, writerVars>>

ManagerApproved ==
    /\ Running("manager_approved")
    /\ log("manager_approval", <<"Manager approved the application">>, "processing", "info", None)
    /\ pc' = "fraud_request"
    /\ UNCHANGED <<event, exec, prior_counts, risk, approval_result, credit_reports,
                   completion, hostVars, apiVars, faults, writerVars>>

FraudRequest ==
    /\ Running("fraud_request")
    /\ log("fraud_check", <<"Requesting external fraud check service...">>, "processing", "info", None)
    /\ pc' = "wait_fraud"
    /\ UNCHANGED <<event, exec, prior_counts, risk, approval_result, credit_reports,
                   completion, hostVars, apiVars, faults, writerVars>>

\* wait_for_callback(submit_fraud_check, name="fraud-check"): the submitter
\* invokes the fraud-check Lambda asynchronously with the callback id.
WaitFraud ==
    /\ Running("wait_fraud")
    /\ LET outcome == WaitOutcome(fraudCb)
           next == AfterFraudWait(outcome)
       IN  /\ fraudCb' = IF outcome = "submit"
                         THEN [state |-> "pending", result |-> None] ELSE fraudCb
           /\ fraudQueue' = IF SubmitterRuns(outcome) THEN fraudQueue + 1 ELSE fraudQueue
           /\ rec' = IF SubmitterRuns(outcome)
                     THEN submit_fraud_check(rec, FraudCallbackId) ELSE rec
           /\ submits' = IF SubmitterRuns(outcome)
                         THEN [submits EXCEPT !.fraud = @ + 1] ELSE submits
           /\ pc' = next
           /\ exec' = IF next = "idle" THEN "suspended" ELSE exec
           /\ prior_counts' = IF next = "idle" THEN ZeroCounts ELSE prior_counts
           /\ call_counts' = IF next = "idle" THEN ZeroCounts ELSE call_counts
           /\ risk' = IF next = "idle" THEN Absent ELSE risk
           /\ approval_result' = IF next = "idle" THEN None ELSE approval_result
           /\ credit_reports' = IF next = "idle" THEN <<>> ELSE credit_reports
           /\ completion' = IF next = "idle" THEN <<>> ELSE completion
    /\ UNCHANGED <<event, mgrCb, managers, branches, apiVars, faults, writerVars>>

FraudPassed ==
    /\ Running("fraud_passed")
    /\ log("fraud_check", <<"Fraud check passed">>, "processing", "info", None)
    /\ pc' = "generating_offer"
    /\ UNCHANGED <<event, exec, prior_counts, risk, approval_result, credit_reports,
                   completion, hostVars, apiVars, faults, writerVars>>

GeneratingOffer ==
    /\ Running("generating_offer")
    /\ log("generating_offer", <<"Generating loan offer...">>, "processing", "info", None)
    /\ pc' = "offer_generated"
    /\ UNCHANGED <<event, exec, prior_counts, risk, approval_result, credit_reports,
                   completion, hostVars, apiVars, faults, writerVars>>

OfferGenerated ==
    /\ Running("offer_generated")
    /\ log("generating_offer", <<"Offer: monthly payment at annual rate">>, "processing", "info", None)
    /\ pc' = "disbursing"
    /\ UNCHANGED <<event, exec, prior_counts, risk, approval_result, credit_reports,
                   completion, hostVars, apiVars, faults, writerVars>>

Disbursing ==
    /\ Running("disbursing")
    /\ log("disbursing", <<"Disbursing funds...">>, "processing", "info", None)
    /\ pc' = "complete"
    /\ UNCHANGED <<event, exec, prior_counts, risk, approval_result, credit_reports,
                   completion, hostVars, apiVars, faults, writerVars>>

Complete ==
    /\ Running("complete")
    /\ log("complete", <<"Loan approved and funds disbursed!">>, "approved", "info", ApprovedResult)
    /\ pc' = "return"
    /\ UNCHANGED <<event, exec, prior_counts, risk, approval_result, credit_reports,
                   completion, hostVars, apiVars, faults, writerVars>>

\* return final_result: the host records the execution as succeeded.
Return ==
    /\ Running("return")
    /\ exec' = "succeeded"
    /\ pc' = "idle"
    /\ prior_counts' = ZeroCounts
    /\ call_counts' = ZeroCounts
    /\ risk' = Absent
    /\ approval_result' = None
    /\ credit_reports' = <<>>
    /\ completion' = <<>>
    /\ UNCHANGED <<rec, event, hostVars, apiVars, faults, writerVars>>

\* except Exception: log the error, then raise.
HandleException ==
    /\ Running("except")
    /\ log("error", <<"Workflow error">>, "failed", "error", None)
    /\ exec' = "failed"
    /\ pc' = "idle"
    /\ prior_counts' = ZeroCounts
    /\ risk' = Absent
    /\ approval_result' = None
    /\ credit_reports' = <<>>
    /\ completion' = <<>>
    /\ UNCHANGED <<event, hostVars, apiVars, faults, writerVars>>


\* ------------------------------------------------------ fraud_check.py ----

\* The host's SendDurableExecutionCallbackSuccess accepts a result only for a
\* callback that is still pending; for a closed or timed-out one it raises.
CallbackOpen(cb) == cb.state = "pending"

\* lambda_handler of the fraud-check service: one asynchronous invocation
\* sends the callback for the fraud-check suspension.
FraudCheckLambda ==
    /\ fraudQueue > 0
    /\ fraudQueue' = fraudQueue - 1
    /\ fraudCb' = IF CallbackOpen(fraudCb)
                  THEN [state |-> "succeeded",
                        result |-> [fraud_check |-> "passed",
                                    checked_by |-> "FraudCheckService-v2"]]
                  ELSE fraudCb
    /\ UNCHANGED <<rec, event, exec, handlerVars, mgrCb, managers, submits, branches, apiVars, faults, writerVars>>

\* WaitForCallbackConfig(timeout=...): the host ends a pending callback.
ManagerTimeout ==
    /\ mgrCb.state = "pending"
    /\ mgrCb' = [state |-> "timedout", result |-> None]
    /\ UNCHANGED <<rec, event, exec, handlerVars, fraudCb, fraudQueue, managers, submits, branches, apiVars, faults, writerVars>>

FraudTimeout ==
    /\ fraudCb.state = "pending"
    /\ fraudCb' = [state |-> "timedout", result |-> None]
    /\ UNCHANGED <<rec, event, exec, handlerVars, mgrCb, fraudQueue, managers, submits, branches, apiVars, faults, writerVars>>

\* -------------------------------------------------------------- api.py ----

\* if not all([name, sin, loan_amount])
ApplyAccepts(body) == body.name # "" /\ body.sin # "" /\ body.loan_amount # 0

InitialItem(body) ==
    [application_id |-> "LOAN-1",
     status |-> "submitted",
     current_step |-> "submitted",
     applicant_name |-> body.name,
     loan_amount |-> body.loan_amount,
     logs |-> <<[step |-> "submitted", message |-> <<"Application received">>,
                 level |-> "info"]>>,
     result |-> None]

WorkflowEvent(body) ==
    [application_id |-> "LOAN-1",
     applicant_name |-> body.name,
     ssn_last4 |-> body.sin,
     annual_income |-> AnnualIncome,
     loan_amount |-> body.loan_amount,
     loan_purpose |-> "personal_loan",
     address |-> "",
     phone |-> ""]

\* POST /apply
Apply ==
    /\ rec = None
    /\ \E body \in ApplyBodies :
         IF ApplyAccepts(body)
         THEN /\ rec' = InitialItem(body)
              /\ event' = WorkflowEvent(body)
              /\ exec' = "queued"
              /\ response' = [by |-> "apply", status |-> "application_created"]
         ELSE /\ response' = [by |-> "apply", status |-> "missing_required_fields"]
              /\ UNCHANGED <<rec, event, exec>>
    /\ UNCHANGED <<handlerVars, hostVars, apc, alocal, resumedWith, senders, faults, writerVars>>

\* Faulty variant: the check for a stored callback id is missing.
HasPendingApproval_Always(item) == TRUE

\* callback_id = item.get("callback_id"); if not callback_id: raise
HasPendingApproval(item) == Get(item, "callback_id", Absent) # Absent

\* Faulty variant: the reason of the request body is not passed on.
CallbackPayload_DropReason(body) ==
    IF Get(body, "approved", FALSE)
    THEN [approved |-> TRUE]
    ELSE [approved |-> FALSE, reason |-> DefaultReason]

\* callback_result of approve
CallbackPayload(body) ==
    IF Get(body, "approved", FALSE)
    THEN [approved |-> TRUE]
    ELSE [approved |-> FALSE, reason |-> Get(body, "reason", DefaultReason)]

\* Faulty variant: the callback id is left in the item.
RemoveCallbackId_Keep(item) == item

\* UpdateExpression="REMOVE callback_id"
RemoveCallbackId(item) == RemoveAttr(item, "callback_id")

\* POST /approve, up to the read of callback_id.
ApproveRead(a) ==
    /\ a \in managers
    /\ apc[a] = "idle"
    /\ \E body \in ApproveBodies :
         IF rec = None
         THEN /\ response' = [by |-> a, status |-> "not_found"]
              /\ UNCHANGED <<apc, alocal>>
         ELSE IF ~HasPendingApproval(rec)
         THEN /\ response' = [by |-> a, status |-> "no_pending_approval"]
              /\ UNCHANGED <<apc, alocal>>
         ELSE /\ apc' = [apc EXCEPT ![a] = "send"]
              /\ alocal' = [alocal EXCEPT ![a] =
                               [callback_id |-> Get(rec, "callback_id", Absent),
                                callback_result |-> CallbackPayload(body),
                                body |-> body]]
              /\ UNCHANGED response
    /\ UNCHANGED <<rec, event, exec, handlerVars, hostVars, resumedWith, senders, faults, writerVars>>

\* Faulty variant: the callback id is removed whether or not the send succeeded.
AfterSend_AlwaysClear(sent) == "clear"

\* Where approve goes after send_durable_execution_callback_success: on to
\* REMOVE callback_id when the call returned, out of the function when it raised.
AfterSend(sent) == IF sent THEN "clear" ELSE "idle"

\* send_durable_execution_callback_success for the callback the id names:
\* accepted by the host, or raising (the callback is closed, or the call
\* fails), which ends the request.
ApproveSend(a) ==
    /\ apc[a] = "send"
    /\ senders' = senders \cup {a}
    /\ LET toFraud == alocal[a].callback_id = FraudCallbackId
           done == [state |-> "succeeded", result |-> alocal[a].callback_result]
       IN  \/ /\ CallbackOpen(IF toFraud THEN fraudCb ELSE mgrCb)
              /\ mgrCb' = IF toFraud THEN mgrCb ELSE done
              /\ fraudCb' = IF toFraud THEN done ELSE fraudCb
              /\ resumedWith' = alocal[a].body
              /\ apc' = [apc EXCEPT ![a] = AfterSend(TRUE)]
              /\ UNCHANGED <<alocal, response>>
           \/ /\ apc' = [apc EXCEPT ![a] = AfterSend(FALSE)]
              /\ alocal' = [alocal EXCEPT ![a] = None]
              /\ response' = [by |-> a, status |-> "callback_error"]
              /\ UNCHANGED <<mgrCb, fraudCb, resumedWith>>
    /\ UNCHANGED <<rec, event, exec, handlerVars, fraudQueue, managers, submits,
                   branches, faults, writerVars>>

\* REMOVE callback_id, then the 200 response.
ApproveClear(a) ==
    /\ apc[a] = "clear"
    /\ rec' = RemoveCallbackId(rec)
    /\ apc' = [apc EXCEPT ![a] = "idle"]
    /\ alocal' = [alocal EXCEPT ![a] = None]
    /\ response' = [by |-> a, status |-> "approval_sent"]
    /\ UNCHANGED <<event, exec, handlerVars, hostVars, resumedWith, senders, faults, writerVars>>

\* ------------------------------------------------------- specification ----

InitWorkflow ==
    /\ exec = "none"
    /\ pc = "idle"
    /\ prior_counts = ZeroCounts
    /\ call_counts = ZeroCounts
    /\ risk = Absent
    /\ approval_result = None
    /\ mgrCb = NoCallback
    /\ fraudCb = NoCallback
    /\ fraudQueue = 0
    /\ credit_reports = <<>>
    /\ completion = <<>>
    /\ branches = {}
    /\ apc = [a \in Approvers |-> "idle"]
    /\ alocal = [a \in Approvers |-> None]
    /\ response = [by |-> "none", status |-> "none"]
    /\ faults = 0
    /\ resumedWith = None
    /\ submits = [manager |-> 0, fraud |-> 0]
    /\ senders = {}

InitState ==
    /\ rec = None
    /\ event = None
    /\ InitWorkflow
    /\ wstate = [w \in Writers |-> [pc |-> "start", read |-> None, calls |-> 0]]
    /\ written = <<>>

Init ==
    /\ InitState
    /\ managers = {"m1"}

Next ==
    \/ Apply
    \/ HostInvoke
    \/ Crash
    \/ Validating
    \/ Validated
    \/ CreditCheck
    \/ \E i \in DOMAIN Bureaus : PullCreditReport(i)
    \/ GetResults
    \/ CreditScores
    \/ RiskAssessment
    \/ RiskAssessed
    \/ Denied
    \/ ManagerRequired
    \/ WaitManager
    \/ ManagerDenied
    \/ ManagerApproved
    \/ FraudRequest
    \/ WaitFraud
    \/ FraudPassed
    \/ GeneratingOffer
    \/ OfferGenerated
    \/ Disbursing
    \/ Complete
    \/ Return
    \/ HandleException
    \/ FraudCheckLambda
    \/ ManagerTimeout
    \/ FraudTimeout
    \/ \E a \in Approvers : ApproveRead(a)
    \/ \E a \in Approvers : ApproveSend(a)
    \/ \E a \in Approvers : ApproveClear(a)

Spec == Init /\ [][Next]_vars

\* The steps the system takes on its own: the host starts and re-invokes the
\* handler, a running invocation goes on to its next statement, the
\* fraud-check service handles an invocation it was sent, and a pending
\* callback times out.  Requests to the API and crashes are not among them.
Progress ==
    \/ HostInvoke
    \/ Validating
    \/ Validated
    \/ CreditCheck
    \/ \E i \in DOMAIN Bureaus : PullCreditReport(i)
    \/ GetResults
    \/ CreditScores
    \/ RiskAssessment
    \/ RiskAssessed
    \/ Denied
    \/ ManagerRequired
    \/ WaitManager
    \/ ManagerDenied
    \/ ManagerApproved
    \/ FraudRequest
    \/ WaitFraud
    \/ FraudPassed
    \/ GeneratingOffer
    \/ OfferGenerated
    \/ Disbursing
    \/ Complete
    \/ Return
    \/ HandleException
    \/ FraudCheckLambda
    \/ ManagerTimeout
    \/ FraudTimeout

SpecLive == Init /\ [][Next]_vars /\ WF_vars(Progress)

\* Two approve requests may be in flight at once.
InitRace ==
    /\ InitState
    /\ managers = Approvers

SpecRace == InitRace /\ [][Next]_vars

\* ---------------------------------------------- concurrent invocations ----

\* The log calls the invocations make: step, message, status, level, result.
LogCalls ==
    {[step |-> "validating", message |-> <<"Validating loan application...">>,
      status |-> "processing", level |-> "info", result |-> None],
     [step |-> "credit_check", message |-> <<"[REPLAY] ", "Credit scores received">>,
      status |-> "processing", level |-> "replay", result |-> None],
     [step |-> "risk_assessment", message |-> <<"Application denied">>,
      status |-> "denied", level |-> "warn", result |-> DeniedByRisk]}

\* Faulty variant: the entry is appended to the list the invocation read.
UpdateTarget_AsRead(stored, read) == read

\* table.update_item with list_append(if_not_exists(#logs, :empty_list),
\* :new_log): the store applies the expression to the item it holds, not to
\* a copy the caller read before.
UpdateTarget(stored, read) == stored

\* An invocation starts: lambda_handler reads the item (get_item).
WriterInvoke(w) ==
    /\ wstate[w].pc = "start"
    /\ wstate' = [wstate EXCEPT ![w] = [pc |-> "log", read |-> rec, calls |-> 0]]
    /\ UNCHANGED <<rec, event, exec, handlerVars, hostVars, apiVars, faults, written>>

\* One log_progress call of the invocation, complete when update_item returns.
WriterLog(w) ==
    /\ wstate[w].pc = "log"
    /\ wstate[w].calls < MaxWrites
    /\ \E c \in LogCalls :
          /\ rec' = log_progress(UpdateTarget(rec, wstate[w].read),
                                 c.step, c.message, c.status, c.level, c.result)
          /\ written' = Append(written,
                               [step |-> c.step, message |-> c.message, level |-> c.level])
    /\ wstate' = [wstate EXCEPT ![w].calls = @ + 1]
    /\ UNCHANGED <<event, exec, handlerVars, hostVars, apiVars, faults>>

\* The invocation ends.
WriterReturn(w) ==
    /\ wstate[w].pc = "log"
    /\ wstate' = [wstate EXCEPT ![w].pc = "done"]
    /\ UNCHANGED <<rec, event, exec, handlerVars, hostVars, apiVars, faults, written>>

\* The item as apply created it, and two invocations about to start.
InitWriters ==
    /\ \E body \in ApplyBodies :
          /\ ApplyAccepts(body)
          /\ rec = InitialItem(body)
          /\ event = WorkflowEvent(body)
    /\ InitWorkflow
    /\ managers = {}
    /\ wstate = [w \in Writers |-> [pc |-> "start", read |-> None, calls |-> 0]]
    /\ written = <<>>

NextWriters ==
    \/ \E w \in Writers : WriterInvoke(w)
    \/ \E w \in Writers : WriterLog(w)
    \/ \E w \in Writers : WriterReturn(w)

SpecWriters == InitWriters /\ [][NextWriters]_vars

\* -------------------------------------------------------------- claims ----

Logs == Get(rec, "logs", <<>>)
Token == Get(rec, "callback_id", Absent)
Last(seq) == seq[Len(seq)]
Terminal(status) == status \in {"approved", "denied", "failed"}

\* The text of a stored message without the replay prefix.
Text(entry) == entry.message[Len(entry.message)]

\* A log call happens in this step: one counter of the invocation goes up.
LogCallOf(s) == call_counts'[s] = call_counts[s] + 1

\* An approve request has had its callback accepted and has finished.
ResumeCompleted == resumedWith # None /\ \A a \in Approvers : apc[a] = "idle"

C2_ResumedOnce ==
    [][/\ ResumeCompleted => \A a \in Approvers : apc'[a] = "idle"
       /\ mgrCb.state = "succeeded" => mgrCb' = mgrCb]_vars

C2_Witness ==
    /\ ResumeCompleted
    /\ mgrCb.state = "succeeded"
    /\ response.status = "no_pending_approval"

\* C3: an approve request made while the item stores no callback id (no item,
\* id never written, id already removed) is rejected: it goes no further than
\* the read, the item is left as it was and no callback reaches the host.
C3_RejectedResumeNoEffect ==
    [][\A a \in Approvers :
          (apc[a] = "idle" /\ Token = Absent) =>
             /\ apc'[a] = "idle"
             /\ (response' # response /\ response'.by = a) =>
                    /\ response'.status \in {"not_found", "no_pending_approval"}
                    /\ rec' = rec
                    /\ mgrCb' = mgrCb
                    /\ fraudCb' = fraudCb]_vars

C3_Witness ==
    /\ response.status = "no_pending_approval"
    /\ exec = "suspended"
    /\ fraudCb.state = "pending"
    /\ mgrCb.state = "none"
    /\ Token = Absent

C5_OneOutstandingCallback ==
    /\ ~(mgrCb.state = "pending" /\ fraudCb.state = "pending")
    /\ fraudCb.state # "none" => mgrCb.state \in {"none", "succeeded"}

C5_Witness ==
    /\ fraudCb.state = "pending"
    /\ mgrCb.state = "succeeded"
    /\ exec = "suspended"

\* C6: once the manager-approval suspension has timed out and the workflow
\* has failed on it, the item no longer holds the callback id, and no approve
\* request gets as far as sending a callback.
C6_TimeoutInvalidatesToken ==
    (rec # None /\ mgrCb.state = "timedout" /\ exec = "failed") =>
        /\ Token = Absent
        /\ \A a \in Approvers : apc[a] = "idle"

\* C7: whenever an invocation ends in the exception handler, the entry it
\* appended has step "error" and level "error" and the status is "failed".
C7_ErrorLoggedAtErrorLevel ==
    exec = "failed" =>
        /\ Last(Logs).step = "error"
        /\ Last(Logs).level = "error"
        /\ rec.status = "failed"

\* C8: once the status is terminal, no step changes the status, current_step
\* or logs of the item.
C8_TerminalIsFinal ==
    [][(rec # None /\ Terminal(rec.status)) =>
          /\ rec'.status = rec.status
          /\ rec'.current_step = rec.current_step
          /\ rec'.logs = rec.logs]_vars

\* C9: if the result is set then the status is terminal, and the last stored
\* log entry is the one that set the result.
C9_ResultImpliesTerminal ==
    (rec # None /\ rec.result # None) =>
        /\ Terminal(rec.status)
        /\ rec.status = rec.result.status
        /\ Text(Last(Logs)) \in {"Application denied", "Application denied by manager",
                                 "Loan approved and funds disbursed!"}

\* C10: for an approving application of 150000 the workflow cannot get past
\* manager approval unanswered; after a resume with approved=false the
\* fraud check is never entered and the completed workflow has status
\* "denied" with the reason of the request; after a resume with
\* approved=true the only way on leads through the fraud-check suspension.
C10_ManagerScenario ==
    (event # None /\ event.loan_amount = 150000
       /\ get_scenario_decision(event.ssn_last4, event.loan_amount) = "approved") =>
        /\ (exec = "succeeded" \/ fraudCb.state # "none") => mgrCb.state = "succeeded"
        /\ (resumedWith # None /\ ~Get(resumedWith, "approved", FALSE)) =>
              /\ fraudCb.state = "none"
              /\ exec # "failed"
              /\ exec = "succeeded" =>
                    /\ rec.status = "denied"
                    /\ rec.result.status = "denied"
                    /\ rec.result.reason = Get(resumedWith, "reason", DefaultReason)
        /\ (resumedWith # None /\ Get(resumedWith, "approved", FALSE)) =>
              /\ exec = "succeeded" => (fraudCb.state = "succeeded" /\ rec.status = "approved")
              /\ exec = "failed" => fraudCb.state = "timedout"
              /\ fraudCb.state # "none" => mgrCb.result = [approved |-> TRUE]

C10_Witness ==
    /\ event # None
    /\ event.loan_amount = 150000
    /\ exec = "succeeded"
    /\ rec.status = "denied"
    /\ resumedWith = [approved |-> FALSE, reason |-> "Too risky"]
    /\ rec.result.reason = "Too risky"

\* Steps of the workflow that come after the risk decision.
StepsAfterRisk ==
    {"manager_approval", "fraud_check", "generating_offer", "disbursing", "complete"}

PcAfterRisk ==
    {"manager_required", "wait_manager", "manager_denied", "manager_approved",
     "fraud_request", "wait_fraud", "fraud_passed", "generating_offer",
     "offer_generated", "disbursing", "complete"}

HasEntryOf(steps) == \E i \in 1..Len(Logs) : Logs[i].step \in steps

\* The applications the scenarios deny: "2222" for any amount, "3333" above
\* 25000.
DeniedScenario ==
    /\ event # None
    /\ validate_application(event)
    /\ \/ event.ssn_last4 = "2222"
       \/ event.ssn_last4 = "3333" /\ event.loan_amount > 25000

\* C11: when the risk decision is "denied" the workflow never creates the
\* manager or the fraud-check callback, never invokes the fraud-check
\* service, never logs or runs a step after risk assessment, never fails,
\* and a completed execution has status "denied" at step risk_assessment.
C11_DeniedAtRiskAssessment ==
    DeniedScenario =>
        /\ risk \in {Absent, "denied"}
        /\ mgrCb.state = "none"
        /\ fraudCb.state = "none"
        /\ fraudQueue = 0
        /\ ~HasEntryOf(StepsAfterRisk)
        /\ pc \notin PcAfterRisk
        /\ exec \notin {"suspended", "failed"}
        /\ exec = "succeeded" =>
              /\ rec.status = "denied"
              /\ rec.current_step = "risk_assessment"
              /\ rec.result.status = "denied"

C11_Witness ==
    /\ event # None
    /\ event.ssn_last4 = "3333"
    /\ event.loan_amount = 30000
    /\ exec = "succeeded"
    /\ rec.status = "denied"
    /\ rec.current_step = "risk_assessment"

\* C12: for ssn_last4 "1111" and loan_amount 50000 the risk decision is
\* "approved", no manager-approval callback or log entry ever exists, the
\* execution does not fail once the fraud-check callback has succeeded, and
\* a completed execution has status "approved" and a result with an offer_id.
C12_ScenarioA ==
    (event # None /\ event.ssn_last4 = "1111" /\ event.loan_amount = 50000) =>
        /\ risk \in {Absent, "approved"}
        /\ mgrCb.state = "none"
        /\ ~HasEntryOf({"manager_approval"})
        /\ pc \notin {"denied", "manager_required", "wait_manager",
                      "manager_denied", "manager_approved"}
        /\ fraudCb.state = "succeeded" => exec # "failed"
        /\ exec = "succeeded" =>
              /\ fraudCb.state = "succeeded"
              /\ rec.status = "approved"
              /\ "offer_id" \in DOMAIN rec.result
              /\ rec.result.offer_id # ""

C12_Witness ==
    /\ event # None
    /\ event.ssn_last4 = "1111"
    /\ event.loan_amount = 50000
    /\ exec = "succeeded"
    /\ rec.status = "approved"
    /\ rec.result.offer_id = "OFFER-1"

\* C14: every application for which the submission endpoint creates a record
\* and triggers the workflow is one that validate_application accepts.
C14_MalformedNeverReachesWorkflow ==
    event # None => validate_application(event)

\* The logical event of the appended entry is already in the stored log.
AlreadyPersisted(logs, entry) ==
    \E i \in 1..Len(logs) :
        logs[i].step = entry.step /\ Text(logs[i]) = Text(entry)

\* C16: a log call is recorded as a replay (level "replay") if and only if
\* an entry for the same step with the same text was already stored before
\* the call; an event never stored before is recorded as new.
C16_DiscriminatorCorrect ==
    [][\A s \in Steps :
          LogCallOf(s) =>
             ((Last(rec'.logs).level = "replay") <=>
                  AlreadyPersisted(rec.logs, Last(rec'.logs)))]_vars

\* C17: a log call judged a replay echo leaves status, current_step and
\* result of the item as they were before the call.
C17_ReplayLeavesRecord ==
    [][\A s \in Steps :
          (LogCallOf(s) /\ call_counts'[s] <= prior_counts[s]) =>
             /\ rec'.status = rec.status
             /\ rec'.current_step = rec.current_step
             /\ rec'.result = rec.result]_vars

ManagerPcs ==
    {"manager_required", "wait_manager", "manager_denied", "manager_approved"}

\* The workflow has entered the manager-approval branch.
ManagerEntered ==
    \/ mgrCb.state # "none"
    \/ HasEntryOf({"manager_approval"})
    \/ pc \in ManagerPcs

\* C19 (as stated): manager approval is entered only when the loan amount
\* exceeds 100000.
C19_ManagerOnlyAboveThreshold ==
    (event # None /\ ManagerEntered) => event.loan_amount > 100000

\* C19 (amended): manager approval is entered only on the approving path
\* and only when the loan amount is at least 100000; below 100000 the
\* workflow never enters it, and from 100000 on the fraud check is entered
\* only after the manager callback has succeeded.
C19_ManagerAtOrAboveThreshold ==
    event # None =>
        /\ ManagerEntered => event.loan_amount >= 100000
        /\ ManagerEntered => risk \in {Absent, "approved"}
        /\ (event.loan_amount >= 100000
              /\ (fraudCb.state # "none" \/ HasEntryOf({"fraud_check"})
                    \/ pc \in {"fraud_request", "wait_fraud"})) =>
                mgrCb.state = "succeeded"

C19_Witness ==
    /\ event # None
    /\ event.loan_amount = 100000
    /\ mgrCb.state = "pending"
    /\ exec = "suspended"
    /\ rec.status = "pending_approval"

OfferPcs == {"generating_offer", "offer_generated", "disbursing", "complete"}

\* The workflow is at or past offer generation.
OfferReached ==
    \/ pc \in OfferPcs
    \/ HasEntryOf({"generating_offer", "disbursing", "complete"})

\* C20: offer generation and disbursement are reached only after the
\* fraud-check callback has succeeded and, for a loan that needs a manager,
\* after the manager callback has succeeded with approved = TRUE; status
\* "approved" is stored only after a "disbursing" entry.
C20_DisburseAfterResumes ==
    rec # None =>
        /\ OfferReached =>
              /\ fraudCb.state = "succeeded"
              /\ mgrCb.state \in {"none", "succeeded"}
              /\ mgrCb.state = "succeeded" => mgrCb.result = [approved |-> TRUE]
              /\ event.loan_amount >= 100000 => mgrCb.state = "succeeded"
        /\ rec.status = "approved" =>
              \E i, j \in 1..Len(Logs) :
                  /\ i < j
                  /\ Logs[i].step = "disbursing"
                  /\ Logs[j].step = "complete"

C20_Witness ==
    /\ event # None
    /\ event.loan_amount = 150000
    /\ exec = "succeeded"
    /\ rec.status = "approved"
    /\ mgrCb.result = [approved |-> TRUE]
    /\ fraudCb.state = "succeeded"

C18_AtMostOneSender == Cardinality(senders) <= 1

\* C13: the list handed to risk assessment holds the reports of equifax,
\* transunion and experian in that order, whatever the order in which the
\* branches finished, and it is the same list in every invocation: each
\* entry is the report of its bureau for the applicant.
C13_FanOutInputOrder ==
    credit_reports # <<>> =>
        /\ Len(credit_reports) = 3
        /\ credit_reports[1].bureau = "equifax"
        /\ credit_reports[2].bureau = "transunion"
        /\ credit_reports[3].bureau = "experian"
        /\ \A i \in 1..3 :
              credit_reports[i].seed = <<credit_reports[i].bureau, "-", event.ssn_last4>>

\* experian finished first and equifax last, and the list risk assessment
\* was given is in input order.
C13_Witness ==
    /\ credit_reports # <<>>
    /\ completion = <<3, 2, 1>>
    /\ credit_reports[1].bureau = "equifax"
    /\ credit_reports[3].bureau = "experian"
    /\ pc = "risk_assessed"

\* The place of a log event in the order in which lambda_handler emits them;
\* the two answers of the manager share a place, the error entry comes last.
EmissionOrder ==
    <<"Application received",
      "Validating loan application...",
      "Application validated successfully",
      "Pulling credit reports from 3 bureaus...",
      "Credit scores received",
      "Calculating risk score...",
      "Risk tier, avg score, decision",
      "Application denied",
      "Manager approval required for loans >= $100,000",
      "Manager approved the application",
      "Requesting external fraud check service...",
      "Fraud check passed",
      "Generating loan offer...",
      "Offer: monthly payment at annual rate",
      "Disbursing funds...",
      "Loan approved and funds disbursed!",
      "Workflow error">>

EmissionPlace(entry) ==
    IF Text(entry) = "Application denied by manager"
    THEN 10
    ELSE CHOOSE k \in DOMAIN EmissionOrder : EmissionOrder[k] = Text(entry)

NotEcho(entry) == entry.level # "replay"

\* C21: the stored log with the replay echoes left out is in the order in
\* which the handler emits its log events: each entry reports a later event
\* than the entry before it, whatever re-invocations happened.
C21_LogInEmissionOrder ==
    LET narrative == SelectSeq(Logs, NotEcho)
    IN  \A k \in 1..(Len(narrative) - 1) :
            EmissionPlace(narrative[k]) < EmissionPlace(narrative[k + 1])

\* A completed workflow with manager approval whose log holds replay echoes
\* between the entries of its steps.
C21_Witness ==
    /\ exec = "succeeded"
    /\ rec.status = "approved"
    /\ HasEntryOf({"manager_approval"})
    /\ \E i, j \in 1..Len(Logs) :
          /\ i < j
          /\ Logs[i].level = "replay"
          /\ Logs[j].level = "info"
          /\ Logs[j].step = "complete"

\* C23: an approve request whose send raised leaves the item as it was and
\* answers with the error, and the callback id is removed from the item
\* only by a request whose send the host has accepted.
C23_FailedSendKeepsToken ==
    [][/\ \A a \in Approvers :
             (apc[a] = "send" /\ apc'[a] # "send" /\ mgrCb' = mgrCb) =>
                 /\ rec' = rec
                 /\ apc'[a] = "idle"
                 /\ response' = [by |-> a, status |-> "callback_error"]
       /\ (Token # Absent /\ Token' = Absent) =>
             /\ mgrCb.state = "succeeded"
             /\ \E a \in Approvers : apc[a] = "clear" /\ apc'[a] = "idle"]_vars

\* After a send that raised, the next approve request has read the same
\* callback id and is about to send it to the callback that is still pending.
C23_Witness ==
    /\ response = [by |-> "m1", status |-> "callback_error"]
    /\ apc["m1"] = "send"
    /\ alocal["m1"].callback_id = ManagerCallbackId
    /\ Token = ManagerCallbackId
    /\ mgrCb.state = "pending"

SuspendedAtFraudCheck == exec = "suspended" /\ fraudCb.state = "pending"

\* C24: the send of an approve request never changes the fraud-check
\* callback; while the workflow is suspended at the fraud check and no approve
\* request is under way the item stores no callback id; and an approve
\* request made then is answered "No pending approval" and changes nothing.
C24_ApproveNeverResumesFraud ==
    [][/\ \A a \in Approvers :
             (apc[a] = "send" /\ apc'[a] # "send") => fraudCb' = fraudCb
       /\ (SuspendedAtFraudCheck /\ \A a \in Approvers : apc[a] = "idle") =>
             Token = Absent
       /\ \A a \in Approvers :
             (SuspendedAtFraudCheck /\ apc[a] = "idle" /\ Token = Absent
                /\ response' # response /\ response'.by = a) =>
                 /\ response'.status = "no_pending_approval"
                 /\ apc' = apc
                 /\ rec' = rec
                 /\ mgrCb' = mgrCb
                 /\ fraudCb' = fraudCb]_vars

\* An approve request was rejected after the manager's callback id had been
\* removed, and the workflow is suspended at the fraud check.
C24_Witness ==
    /\ SuspendedAtFraudCheck
    /\ mgrCb.state = "succeeded"
    /\ Token = Absent
    /\ response = [by |-> "m1", status |-> "no_pending_approval"]

\* C22: with two invocations appending at once, every completed
\* log_progress call has added its entry as the last one of the stored log,
\* the stored log holds one entry for each completed call after the entry
\* of apply, and no step removes or changes an entry already stored.
C22_NoAppendLost ==
    [][/\ Len(Logs) = 1 + Len(written)
       /\ Len(rec'.logs) >= Len(rec.logs)
       /\ SubSeq(rec'.logs, 1, Len(rec.logs)) = rec.logs
       /\ written' # written =>
             /\ Len(rec'.logs) = Len(rec.logs) + 1
             /\ Last(rec'.logs) = Last(written')]_vars

\* Both invocations read the item before either appended, and each has
\* completed two log_progress calls.
C22_Witness ==
    /\ \A w \in Writers :
          /\ wstate[w].calls = 2
          /\ wstate[w].read # None
          /\ Len(wstate[w].read.logs) = 1
    /\ Len(Logs) = 5

\* C25: at every moment at which the item of an application exists, its
\* status is "approved", "denied" or "failed" then or later: the status
\* does not stay "submitted", "processing" or "pending_approval" for good.
C25_EventuallyTerminal == []<>(rec = None \/ Terminal(rec.status))

\* A workflow nobody answered: the manager callback timed out and the
\* status is "failed".
C25_Witness ==
    /\ rec # None
    /\ exec = "failed"
    /\ mgrCb.state = "timedout"
    /\ rec.status = "failed"
    /\ senders = {}

====
